---------------------------- MODULE Spec2Model ----------------------------
(*************************************************************************)
(* Load / predict contract of the sageturner example programs.           *)
(*                                                                       *)
(* Five programs are modelled, one per source file:                      *)
(*   clip_gen         examples/CLIP/generate-container/sageturner.py     *)
(*   clip_provided    examples/CLIP/provided-container/serve.py          *)
(*   clip_serve       examples/CLIP/serve.py                             *)
(*   resnet_gen       examples/resnet-50/generate-container/sageturner.py*)
(*   resnet_provided  examples/resnet-50/provided-container/serve.py     *)
(*                                                                       *)
(* A behaviour is one process: it is started either as a script          *)
(* (python <file>.py, the `if __name__ == "__main__"` block runs) or by  *)
(* a server that imports the module.  The environment (mount directory,  *)
(* override variable, accelerator, availability of the default weights)  *)
(* is chosen in Init and never changes.                                  *)
(*************************************************************************)
EXTENDS Integers, Sequences, FiniteSets, TLC

\* Number of predict() calls a behaviour may make.
MaxPredicts == 3

HTTP_200_OK == 200

HTTP_500 == 500

VARIABLES
    prog,         \* which program the process runs
    launch,       \* how it was started
    mountDir,     \* state of /opt/ml/model
    envPath,      \* os.getenv("SIMPLE_SAGE_ARTIFACT_PATH")
    cuda,         \* torch.cuda.is_available()
    defaultOk,    \* the default reference ("ViT-B/32", "../artefact") yields weights
    pc,           \* position of the process
    inst,         \* module instance whose code is running / serving
    handles,      \* per module instance: what model, preprocess, device are bound to
    source,       \* artifact source chosen by the latest resolution
    nLoads,       \* executions of the load code in this process
    nModelMat,    \* models materialized (clip.load / from_pretrained returned)
    nPreLoad,     \* preprocessors materialized by the load code
    nPrePredict,  \* preprocessors materialized by predict
    lastPing,     \* status of the latest /ping, 0 before the first
    log           \* the predict calls made so far: <<request, response>>, in order

vars == <<prog, launch, mountDir, envPath, cuda, defaultOk, pc, inst, handles, source,
          nLoads, nModelMat, nPreLoad, nPrePredict, lastPing, log>>

\* Number of predict calls made.
nPredicts == Len(log)

env == <<prog, launch, mountDir, envPath, cuda, defaultOk>>

-----------------------------------------------------------------------------
(* Programs                                                              *)

Programs == {"clip_gen", "clip_provided", "clip_serve", "resnet_gen", "resnet_provided"}

\* Programs that define load()/predict() for a generated server.
GenPrograms == {"clip_gen", "resnet_gen"}

\* Programs that are themselves a FastAPI server.
ServerPrograms == {"clip_provided", "clip_serve", "resnet_provided"}

ClipPrograms == {"clip_gen", "clip_provided", "clip_serve"}

ResnetPrograms == {"resnet_gen", "resnet_provided"}

\* Programs whose load code probes /opt/ml/model.
MountProbingPrograms == {"clip_gen", "clip_provided", "resnet_gen", "resnet_provided"}

\* "script": python <file>.py;  "imported": a server imports the module.
Launches == {"script", "imported"}

\* The module objects a process can hold: the script itself, and the module a
\* server imports (uvicorn's "serve:app", or the generated server's import).
Instances == {"__main__", "served"}

-----------------------------------------------------------------------------
(* Environment                                                           *)

\* /opt/ml/model: absent, a plain file, an empty directory, a directory without
\* the weights, a directory holding the weights.
MountStates == {"absent", "file", "empty", "junk", "weights"}

\* os.getenv("SIMPLE_SAGE_ARTIFACT_PATH"): "<None>" stands for None (unset).
EnvNone == "<None>"

EnvValues == {EnvNone, "", "/bad/ViT-B-32.pt", "/good/ViT-B-32.pt"}

isdir(m) == m \in {"empty", "junk", "weights"}

listdir(m) ==
    CASE m = "empty" -> << >>
      [] m = "junk" -> <<"README.md">>
      [] m = "weights" -> <<"weights-file">>
      [] OTHER -> << >>

\* Truth value of `os.path.isdir(p) and os.listdir(p)` as tested by `if`:
\* an empty listing is falsy.
artefact_on_sagemaker_isdirOnly(m) == isdir(m)

artefact_on_sagemaker(m) == isdir(m) /\ listdir(m) # << >>

\* Truth value of `os.getenv(name)` as tested by `if`: None and "" are falsy.
getenv_truthy_setOnly(e) == e # EnvNone

getenv_truthy(e) == e # EnvNone /\ e # ""

\* torch.cuda.is_available() -> "cuda" | "cpu"
device_of(available) == IF available THEN "cuda" ELSE "cpu"

-----------------------------------------------------------------------------
(* Artifact resolution                                                   *)

MountedPath(p) == [kind |-> "mount", path |-> p]

OverridePath(p) == [kind |-> "override", path |-> p]

DefaultReference(n) == [kind |-> "default", path |-> n]

NoSource == [kind |-> "none", path |-> ""]

\* CLIP generate-container load() and CLIP provided-container module level.
resolve_clip_mount(m) ==
    IF artefact_on_sagemaker(m)
    THEN MountedPath("/opt/ml/model/ViT-B-32.pt")
    ELSE DefaultReference("ViT-B/32")

\* resnet-50 load() and module level.
resolve_resnet(m) ==
    IF artefact_on_sagemaker(m)
    THEN MountedPath("/opt/ml/model")
    ELSE DefaultReference("../artefact")

\* CLIP/serve.py module level: only the environment variable is consulted.
resolve_clip_env(e) ==
    IF getenv_truthy(e)
    THEN OverridePath(e)
    ELSE DefaultReference("ViT-B/32")

\* The artifact source program p loads from, given mount state m and the
\* environment variable's value e.
resolve(p, m, e) ==
    CASE p \in {"clip_gen", "clip_provided"} -> resolve_clip_mount(m)
      [] p \in ResnetPrograms -> resolve_resnet(m)
      [] OTHER -> resolve_clip_env(e)

\* Whether clip.load / from_pretrained finds valid weights at the source.
SourceValid(src, m, e, dflt) ==
    CASE src.kind = "mount" -> m = "weights"
      [] src.kind = "override" -> src.path = "/good/ViT-B-32.pt"
      [] src.kind = "default" -> dflt
      [] OTHER -> FALSE

-----------------------------------------------------------------------------
(* Python values held by the programs                                    *)

None == [type |-> "None"]

\* A torch nn.Module built from the weights at path w, placed on device d.
Module(w, d) == [type |-> "module", weights |-> w, device |-> d]

\* The preprocessing transform clip.load returns next to the model.
Transform == [type |-> "transform"]

Str(s) == [type |-> "str", value |-> s]

Dict(m, p, d) == [type |-> "dict", model |-> m, preprocess |-> p, device |-> d]

\* The names model / preprocess / device as bound in one module instance (for
\* a generate-container program: `model` is the value load() returned).
Bound(m, p, d) == [model |-> m, preprocess |-> p, device |-> d]

NoHandles == Bound(None, None, None)

\* `if model:` -- None is falsy, an nn.Module is truthy.
Truthy(v) == v.type # "None"

-----------------------------------------------------------------------------
(* load                                                                  *)

\* clip.load(name, device=device) / ResNetForImageClassification
\* .from_pretrained(...): the model (and, for CLIP, the transform) when the
\* source holds valid weights; otherwise the call raises.
materialize_swallow(p, src, dev, valid) ==
    [raised |-> FALSE,
     model |-> IF valid THEN Module(src.path, dev) ELSE None,
     preprocess |-> IF valid /\ p \in ClipPrograms THEN Transform ELSE None]

materialize(p, src, dev, valid) ==
    IF valid
    THEN [raised |-> FALSE,
          model |-> Module(src.path, dev),
          preprocess |-> IF p \in ClipPrograms THEN Transform ELSE None]
    ELSE [raised |-> TRUE, model |-> None, preprocess |-> None]

\* CLIP generate-container load(): builds model_dict and returns `model`.
load_clip_gen(mat, dev) ==
    LET model == mat.model
        preprocess == mat.preprocess
        model_dict == Dict(model, preprocess, Str(dev))
    IN  Bound(model, None, None)

\* resnet-50 generate-container load(): returns the model.
load_resnet_gen(mat) == Bound(mat.model, None, None)

\* CLIP servers: module globals device, model, preprocess.
load_clip_server(mat, dev) == Bound(mat.model, mat.preprocess, Str(dev))

\* resnet-50 server: module global model.
load_resnet_server(mat) == Bound(mat.model, None, None)

\* What a finished load leaves bound in the module instance.
load_binds(p, mat, dev) ==
    CASE p = "clip_gen" -> load_clip_gen(mat, dev)
      [] p = "resnet_gen" -> load_resnet_gen(mat)
      [] p = "resnet_provided" -> load_resnet_server(mat)
      [] OTHER -> load_clip_server(mat, dev)

\* Device the program places the model on; the resnet programs resolve none.
load_device(p, available) == IF p \in ClipPrograms THEN device_of(available) ELSE "cpu"

-----------------------------------------------------------------------------
(* Requests and decoding                                                 *)

\* request has no "image" key.
Missing == "<missing>"

ImgA64 == "aW1nQQ=="

ImgB64 == "aW1nQg=="

Garbage64 == "Z2FyYmFnZQ=="

NotBase64 == "not-base64"

Payloads == {Missing, NotBase64, Garbage64, ImgA64, ImgB64}

\* A request: the JSON body's "image" entry and whether the URL carries a
\* `request` query parameter.
Requests ==
    {[image |-> p, query |-> FALSE] : p \in Payloads}
        \cup {[image |-> ImgA64, query |-> TRUE]}

NoRequest == [image |-> "", query |-> FALSE]

\* base64.b64decode(s): "not-base64" has 9 alphabet characters once "-" is
\* discarded, which is no whole number of 4-character groups.
b64decode(s) ==
    CASE s = ImgA64 -> [exc |-> "", bytes |-> "imgA"]
      [] s = ImgB64 -> [exc |-> "", bytes |-> "imgB"]
      [] s = Garbage64 -> [exc |-> "", bytes |-> "garbage"]
      [] OTHER -> [exc |-> "binascii.Error", bytes |-> ""]

\* PIL.Image.open(BytesIO(bytes))
Image_open(bytes) ==
    IF bytes \in {"imgA", "imgB"}
    THEN [exc |-> "", image |-> bytes]
    ELSE [exc |-> "UnidentifiedImageError", image |-> ""]

\* Image.open(BytesIO(base64.b64decode(request["image"])))
decode_image(request) ==
    IF request.image = Missing
    THEN [exc |-> "KeyError", image |-> ""]
    ELSE LET d == b64decode(request.image)
         IN  IF d.exc # "" THEN [exc |-> d.exc, image |-> ""]
             ELSE Image_open(d.bytes)

-----------------------------------------------------------------------------
(* Forward pass                                                          *)

Body(probs, label) == [probs |-> probs, label |-> label]

NoBody == Body(<< >>, "")

\* logits_per_image of the image against ["a diagram", "a dog", "a beanbag"].
clip_logits(image) == IF image = "imgA" THEN <<3, 1, 1>> ELSE <<1, 3, 1>>

\* softmax(dim=-1) ... .tolist(), in whole percent: [[p1, p2, p3]].
softmax_tolist(l) ==
    LET total == l[1] + l[2] + l[3]
    IN  << <<(l[1] * 100) \div total, (l[2] * 100) \div total, (l[3] * 100) \div total>> >>

\* model.config.id2label
id2label == <<"tabby", "Labrador retriever", "bean bag">>

resnet_logits(image) == IF image = "imgA" THEN <<5, 1, 2>> ELSE <<1, 5, 2>>

\* logits.argmax(-1).item()
argmax(l) == CHOOSE i \in 1..Len(l) : \A j \in 1..Len(l) : l[j] < l[i] \/ (l[j] = l[i] /\ i <= j)

-----------------------------------------------------------------------------
(* predict                                                               *)

\* What a predict call yields: the exception that left it ("" when it
\* returned), the returned mapping, the preprocessors it constructed.
Result(exc, body, processors) == [exc |-> exc, body |-> body, processors |-> processors]

\* with torch.no_grad(): ... logits_per_image.softmax(dim=-1).cpu().numpy()
forward_clip(model, image) == Body(softmax_tolist(clip_logits(image)), "")

\* with torch.no_grad(): logits = model(**inputs).logits; argmax; id2label
forward_resnet_stateful(model, image) ==
    Body(<< >>, id2label[((argmax(resnet_logits(image)) + nPredicts) % 3) + 1])

forward_resnet(model, image) == Body(<< >>, id2label[argmax(resnet_logits(image))])

\* CLIP generate-container predict(model, request): model["preprocess"] is
\* evaluated before its argument; an nn.Module is not subscriptable.
predict_clip_gen(model, request) ==
    IF model.type # "dict"
    THEN Result("TypeError", NoBody, 0)
    ELSE LET img == decode_image(request)
         IN  IF img.exc # "" THEN Result(img.exc, NoBody, 0)
             ELSE Result("", forward_clip(model.model, img.image), 0)

\* CLIP provided-container predict: body["image"] with the module globals.
predict_clip_provided(g, body) ==
    LET img == decode_image(body)
    IN  IF img.exc # "" THEN Result(img.exc, NoBody, 0)
        ELSE Result("", forward_clip(g.model, img.image), 0)

\* CLIP/serve.py predict(request): `request` is bound to the query parameter,
\* a str, and request.image is no attribute of a str.
predict_clip_serve(g, request) == Result("AttributeError", NoBody, 0)

\* resnet-50 predict (both files): the processor is built first, then the
\* image is decoded.
predict_resnet(model, request) ==
    LET img == decode_image(request)
    IN  IF img.exc # "" THEN Result(img.exc, NoBody, 1)
        ELSE Result("", forward_resnet(model, img.image), 1)

\* predict of program p on the names g bound in its module instance.
predict(p, g, request) ==
    CASE p = "clip_gen" -> predict_clip_gen(g.model, request)
      [] p = "clip_provided" -> predict_clip_provided(g, request)
      [] p = "clip_serve" -> predict_clip_serve(g, request)
      [] OTHER -> predict_resnet(g.model, request)

\* The names bound in the module instance after a predict call: no handler
\* assigns to a global.
predict_globals_reset(g, r) == IF r.exc # "" THEN NoHandles ELSE g

predict_globals(g, r) == g

Response(status, r) == [status |-> status, exc |-> r.exc, body |-> r.body]

NoResponse == [status |-> 0, exc |-> "", body |-> NoBody]

\* FastAPI around a handler: a returned mapping is a 200, an exception that
\* leaves the handler a 500.
http_status(r) == IF r.exc = "" THEN HTTP_200_OK ELSE HTTP_500

\* CLIP/serve.py declares the required query parameter `request`; without it
\* FastAPI answers 422 and the handler does not run.
query_missing(p, request) == p = "clip_serve" /\ ~request.query

\* ping(): `if model:` -> 200, else HTTPException(500)
ping_inverted(model) == IF Truthy(model) THEN HTTP_500 ELSE HTTP_200_OK

ping(model) == IF Truthy(model) THEN HTTP_200_OK ELSE HTTP_500

\* The request the __main__ block builds: clip.png / lab.jpg, base64-encoded.
local_request(p) ==
    IF p \in ClipPrograms
    THEN [image |-> ImgA64, query |-> FALSE]
    ELSE [image |-> ImgB64, query |-> FALSE]

-----------------------------------------------------------------------------
(* The process                                                           *)

Init ==
    /\ prog \in Programs
    /\ launch \in Launches
    /\ mountDir \in MountStates
    /\ envPath \in EnvValues
    /\ cuda \in BOOLEAN
    /\ defaultOk \in BOOLEAN
    /\ pc = "Uninitialized"
    /\ inst = IF launch = "script" THEN "__main__" ELSE "served"
    /\ handles = [i \in Instances |-> NoHandles]
    /\ source = NoSource
    /\ nLoads = 0
    /\ nModelMat = 0
    /\ nPreLoad = 0
    /\ nPrePredict = 0
    /\ lastPing = 0
    /\ log = << >>

\* The result of the materializing call of the load code now running.
Materialized ==
    materialize(prog, source, load_device(prog, cuda),
                SourceValid(source, mountDir, envPath, defaultOk))

\* The load code starts: load() is called (generate-container programs), or
\* the module's top level runs (servers).  The device and the artifact source
\* are resolved.
BeginLoad ==
    /\ pc = "Uninitialized"
    /\ pc' = "Loading"
    /\ source' = resolve(prog, mountDir, envPath)
    /\ nLoads' = nLoads + 1
    /\ UNCHANGED <<env, inst, handles, nModelMat, nPreLoad, nPrePredict, lastPing, log>>

\* The materializing call returns and the names are bound.  A server started
\* as a script has then reached its __main__ block; every other process is
\* ready to predict.
LoadOk ==
    /\ pc = "Loading"
    /\ ~Materialized.raised
    /\ handles' = [handles EXCEPT ![inst] = load_binds(prog, Materialized, load_device(prog, cuda))]
    /\ nModelMat' = nModelMat + 1
    /\ nPreLoad' = nPreLoad + (IF prog \in ClipPrograms THEN 1 ELSE 0)
    /\ pc' = IF prog \in ServerPrograms /\ inst = "__main__" THEN "Loaded" ELSE "Ready"
    /\ UNCHANGED <<env, inst, source, nLoads, nPrePredict, lastPing, log>>

\* The materializing call raises: nothing catches it, the script dies or the
\* import fails, and no app exists.
LoadFail ==
    /\ pc = "Loading"
    /\ Materialized.raised
    /\ pc' = "Failed"
    /\ UNCHANGED <<env, inst, handles, source, nLoads, nModelMat, nPreLoad, nPrePredict,
                   lastPing, log>>

\* __main__ block of a server: uvicorn.Config("serve:app") / server.run()
\* imports the module `serve`, whose top level runs in a new module instance.
RunServer ==
    /\ pc = "Loaded"
    /\ pc' = "Loading"
    /\ inst' = "served"
    /\ source' = resolve(prog, mountDir, envPath)
    /\ nLoads' = nLoads + 1
    /\ UNCHANGED <<env, handles, nModelMat, nPreLoad, nPrePredict, lastPing, log>>

\* GET /ping (POST in CLIP/serve.py)
Ping ==
    /\ pc = "Ready"
    /\ prog \in ServerPrograms
    /\ lastPing' = ping(handles[inst].model)
    /\ UNCHANGED <<env, pc, inst, handles, source, nLoads, nModelMat, nPreLoad,
                   nPrePredict, log>>

\* Bookkeeping of one predict call that answered request with resp.
Record(request, resp) == log' = Append(log, [req |-> request, resp |-> resp])

\* The latest predict call's request and response.
lastReq == IF log = << >> THEN NoRequest ELSE log[Len(log)].req

lastResp == IF log = << >> THEN NoResponse ELSE log[Len(log)].resp

\* POST /invocations on a server.
Invocations ==
    /\ pc = "Ready"
    /\ prog \in ServerPrograms
    /\ nPredicts < MaxPredicts
    /\ \E request \in Requests :
         IF query_missing(prog, request)
         THEN /\ Record(request, [status |-> 422, exc |-> "RequestValidationError", body |-> NoBody])
              /\ UNCHANGED <<handles, nPrePredict>>
         ELSE LET r == predict(prog, handles[inst], request)
              IN  /\ Record(request, Response(http_status(r), r))
                  /\ handles' = [handles EXCEPT ![inst] = predict_globals(handles[inst], r)]
                  /\ nPrePredict' = nPrePredict + r.processors
    /\ UNCHANGED <<env, pc, inst, source, nLoads, nModelMat, nPreLoad, lastPing>>

\* __main__ block of a generate-container program: one predict on the local
\* test image, then print; an exception ends the script with a traceback.
LocalPredict ==
    /\ pc = "Ready"
    /\ prog \in GenPrograms
    /\ launch = "script"
    /\ LET r == predict(prog, handles[inst], local_request(prog))
       IN  /\ Record(local_request(prog), Response(0, r))
           /\ handles' = [handles EXCEPT ![inst] = predict_globals(handles[inst], r)]
           /\ nPrePredict' = nPrePredict + r.processors
           /\ pc' = IF r.exc = "" THEN "Done" ELSE "Crashed"
    /\ UNCHANGED <<env, inst, source, nLoads, nModelMat, nPreLoad, lastPing>>

\* The generated server calls predict(model, request) for a request.
HostPredict ==
    /\ pc = "Ready"
    /\ prog \in GenPrograms
    /\ launch = "imported"
    /\ nPredicts < MaxPredicts
    /\ \E request \in Requests :
         LET r == predict(prog, handles[inst], request)
         IN  /\ Record(request, Response(http_status(r), r))
             /\ handles' = [handles EXCEPT ![inst] = predict_globals(handles[inst], r)]
             /\ nPrePredict' = nPrePredict + r.processors
    /\ UNCHANGED <<env, pc, inst, source, nLoads, nModelMat, nPreLoad, lastPing>>

Next ==
    \/ BeginLoad
    \/ LoadOk
    \/ LoadFail
    \/ RunServer
    \/ Ping
    \/ Invocations
    \/ LocalPredict
    \/ HostPredict

Spec == Init /\ [][Next]_vars

TypeOK ==
    /\ prog \in Programs
    /\ launch \in Launches
    /\ pc \in {"Uninitialized", "Loading", "Loaded", "Ready", "Failed", "Done", "Crashed"}
    /\ inst \in Instances
    /\ nLoads \in 0..2
    /\ Len(log) <= MaxPredicts
    /\ lastPing \in {0, HTTP_200_OK, HTTP_500}

-----------------------------------------------------------------------------
(* Properties                                                            *)

\* The load code has finished successfully in the instance now running.
Loaded == pc \in {"Ready", "Done", "Crashed"}

MountNonEmpty == mountDir \in {"junk", "weights"}

OverrideSet == envPath \notin {EnvNone, ""}

Malformed == {Missing, NotBase64, Garbage64}

\* C1: the value load() returns in the CLIP generate-container program is a
\* bundle holding the model, the preprocessor and the device, and predict can
\* read all three from it.
C1_LoadReturnsBundle ==
    (prog = "clip_gen" /\ Loaded) =>
        LET h == handles[inst].model
        IN  /\ h.type = "dict"
            /\ h.model.type = "module"
            /\ h.preprocess.type = "transform"
            /\ h.device.type = "str"
            /\ \A i \in 1..Len(log) : log[i].resp.exc # "TypeError"

C4_LoadFailureIsFatal ==
    (source # NoSource /\ ~SourceValid(source, mountDir, envPath, defaultOk) /\ pc # "Loading") =>
        /\ pc = "Failed"
        /\ handles[inst] = NoHandles
        /\ log = << >>
        /\ lastPing = 0

C4_Witness ==
    /\ pc = "Failed"
    /\ mountDir = "empty"
    /\ ~OverrideSet
    /\ source.kind = "default"

\* C5: a predict call on a provided-container server whose image payload is
\* missing, not base64 or not an image fails with InvalidRequestError, a
\* client-error (4xx) outcome, and leaves the server Ready.
C5_MalformedIsClientError ==
    \A i \in 1..Len(log) :
        (prog \in {"clip_provided", "resnet_provided"} /\ log[i].req.image \in Malformed) =>
            /\ log[i].resp.exc = "InvalidRequestError"
            /\ log[i].resp.status \in 400..499
            /\ pc = "Ready"

\* C6: once the load code has bound them, the names model, preprocess and
\* device of a module instance are never rebound: every step (a predict call
\* that succeeds or fails, a ping) leaves them as they are.
C6_HandlesNeverMutated ==
    [][\A i \in Instances : handles[i] # NoHandles => handles'[i] = handles[i]]_vars

C6_Witness ==
    /\ handles[inst] # NoHandles
    /\ Len(log) >= 2
    /\ log[1].resp.exc # ""
    /\ log[2].resp.exc = ""
    /\ lastPing = HTTP_200_OK

\* C7: the load code executes exactly once per process, before any predict
\* call: never more than once, once in every state that can predict or has
\* failed, and not at all before the process starts loading.
C7_LoadExactlyOnce ==
    /\ nLoads <= 1
    /\ pc = "Uninitialized" => nLoads = 0
    /\ (Loaded \/ pc = "Failed") => nLoads = 1
    /\ log # << >> => Loaded

\* C8: a ping answers 200 exactly when the model is bound to a non-null value
\* and 500 otherwise, and a 200 is only answered after the load code succeeded.
C8_PingReflectsHandles ==
    lastPing # 0 =>
        /\ lastPing \in {HTTP_200_OK, HTTP_500}
        /\ lastPing = HTTP_200_OK <=> handles[inst].model.type # "None"
        /\ lastPing = HTTP_200_OK =>
             /\ pc = "Ready"
             /\ SourceValid(source, mountDir, envPath, defaultOk)

C8_Witness ==
    /\ lastPing = HTTP_200_OK
    /\ handles[inst].model.type = "module"

\* C9: once predict calls have been made, one model and one preprocessor have
\* been materialized, both by the load code, and none by predict.
C9_MaterializedOnce ==
    log # << >> =>
        /\ nModelMat = 1
        /\ nPreLoad = 1
        /\ nPrePredict = 0

=============================================================================
